---- MODULE Spec2Model ----
(***************************************************************************)
(* Model of listener.go of nsq-event-bus: the listener facade On, the      *)
(* topic provisioning done by checkTopic and createTopic, and the dispatch *)
(* callback built by handleMessage.                                        *)
(*                                                                         *)
(* On is modelled as a process whose steps are the calls it makes to the   *)
(* outside (HTTP requests to nsqlookupd and nsqd, calls on the go-nsq      *)
(* consumer); the answers of the outside are chosen nondeterministically.  *)
(* Every HTTP request a call of On sends is recorded, with the answer it   *)
(* got, in http[p].                                                        *)
(***************************************************************************)
EXTENDS Integers, Sequences, FiniteSets, TLC

(* ------------------------------ bounds -------------------------------- *)
\* longest lc.Lookup list a caller passes
MaxLookup == 2
\* largest lc.HandlerConcurrency a caller passes
MaxConcurrency == 2
\* longest node list /nodes answers with
MaxNodes == 2
\* number of messages published to the subscribed channel
MaxMsgs == 2
\* number of times the transport delivers one message before it gives up
MaxAttempts == 2

(* --------------------------- input domains ---------------------------- *)
\* goroutines of the program that call On
Procs == {1, 2}
\* the goroutine that calls On in Spec
Callers == {1}

TopicNames == {"", "orders"}
ChannelNames == {"", "billing"}
\* lc.HandlerFunc: the nil func value, or a function h
HandlerFuncs == {"nil", "h"}
LookupAddrs == {"disc:4161", "disc2:4161"}

SeqsUpTo(S, n) == UNION {[1..k -> S] : k \in 0..n}

\* lc.HandlerConcurrency: the int On hands to AddConcurrentHandlers; 0 when
\* the caller leaves it unset, and a caller can pass a negative one
ConcurrencyValues == (0 - 1)..MaxConcurrency

ListenerConfigs ==
  [Topic : TopicNames, Channel : ChannelNames, HandlerFunc : HandlerFuncs,
   Lookup : SeqsUpTo(LookupAddrs, MaxLookup),
   HandlerConcurrency : ConcurrencyValues,
   AutoCreateTopic : BOOLEAN]

\* a ListenerConfig value before On is called (never read)
NoConfig ==
  [Topic |-> "", Channel |-> "", HandlerFunc |-> "nil", Lookup |-> <<>>,
   HandlerConcurrency |-> 0, AutoCreateTopic |-> FALSE]

(* nsqd nodes as /nodes lists them *)
BrokerNodes ==
  {[broadcast_address |-> "n1", tcp_port |-> 4150],
   [broadcast_address |-> "n2", tcp_port |-> 4151]}

(* An HTTP exchange as the caller sees it: err is the transport error of   *)
(* http.Get / http.Post (TRUE: no response), StatusCode the status of the  *)
(* response, body the decoded body (only /nodes answers are read).         *)
(* decodes = FALSE is a body json.Decode rejects.                          *)
NoBody == [decodes |-> FALSE, nodes |-> <<>>]
TransportError == [err |-> TRUE, StatusCode |-> 0, body |-> NoBody]
Status(code) == [err |-> FALSE, StatusCode |-> code, body |-> NoBody]

LookupResponses == {TransportError, Status(200), Status(404), Status(500)}
NodesResponses ==
  {TransportError, Status(500), Status(200)}
  \cup {[err |-> FALSE, StatusCode |-> code, body |-> [decodes |-> TRUE, nodes |-> ns]] :
          code \in {200, 500}, ns \in SeqsUpTo(BrokerNodes, MaxNodes)}
CreateResponses == {TransportError, Status(200), Status(500)}

(* Bodies of delivered messages, by what json.Unmarshal sees in them:      *)
(* whether the bytes are JSON at all, and the reply_to member (absent, a   *)
(* string, or a value of another type).                                    *)
Bodies ==
  {[valid_json |-> FALSE, reply_to_type |-> "absent", reply_to |-> ""],
   [valid_json |-> TRUE, reply_to_type |-> "number", reply_to |-> ""],
   [valid_json |-> TRUE, reply_to_type |-> "absent", reply_to |-> ""],
   [valid_json |-> TRUE, reply_to_type |-> "string", reply_to |-> "X"]}
NoMessageBody == [valid_json |-> FALSE, reply_to_type |-> "absent", reply_to |-> ""]

\* ids of the messages on the channel; 0 is no message
Messages == 1..MaxMsgs
\* the worker goroutines AddConcurrentHandlers can start
Workers == 1..MaxConcurrency
\* the value the user handler h returns as its result for message id
Result(id) == [result_of |-> id]
\* errors of the user handler and of emitter.Emit (nil: none)
HandlerErrors == {"nil", "handler: error"}
EmitErrors == {"nil", "emit: error"}

(* ------------------------------- state -------------------------------- *)
VARIABLES
  pc,        \* pc[p]: where caller p is in On
  calls,     \* calls[p]: how many times p has called On
  arg,       \* arg[p]: the ListenerConfig p passed to the current call
  lc,        \* lc[p]: On's local copy of the config (defaults filled in)
  nodes,     \* nodes[p]: createTopic's local variable nodes
  http,      \* http[p]: the HTTP requests of the current call, with answers
  consumer,  \* consumer[p]: the nsq consumer of the current call
  ret,       \* ret[p]: what the current call returned ("none": not yet)
  topics,    \* the topics on the broker fleet: pairs <<nsqd address, topic>>
  body,      \* body[id]: the bytes of message id
  queue,     \* the messages the transport has to deliver
  attempts,  \* attempts[id]: how many times message id was delivered
  worker,    \* worker[w]: the callback invocation worker w is running
  finished,  \* the messages the transport was told are done
  handled    \* handled[id]: invocations of the user handler for message id

onVars == <<pc, calls, arg, lc, nodes, http, consumer, ret, topics>>
dispatchVars == <<body, queue, attempts, worker, finished, handled>>
vars == <<pc, calls, arg, lc, nodes, http, consumer, ret, topics,
          body, queue, attempts, worker, finished, handled>>

(* the consumer before nsq.NewConsumer has returned one; err is what the   *)
(* last call of the nsq library (NewConsumer, ConnectToNSQLookupds) returned *)
NoConsumer == [created |-> FALSE, handlers |-> 0, lookupds |-> {}, err |-> "none"]

(* a worker goroutine that is waiting for a message *)
IdleWorker ==
  [pc |-> "idle", msg |-> 0, ReplyTo |-> "", res |-> Result(0), herr |-> "none",
   invoked |-> 0, emits |-> <<>>, eerr |-> "none", ret |-> "none", first |-> FALSE]

(* ------------------------------ errors -------------------------------- *)
ErrTopicRequired == "topic is mandatory"
ErrHandlerRequired == "handler is mandatory"
ErrChannelRequired == "channel is mandatory"
\* the error value of a call that succeeded
nil == "nil"

(* --------------------- On: validation and defaults -------------------- *)
(* Validate without the test of the topic *)
ValidateNoTopic(cfg) ==
  IF Len(cfg.Channel) = 0 THEN ErrChannelRequired
  ELSE IF cfg.HandlerFunc = "nil" THEN ErrHandlerRequired
  ELSE nil

(* Validate with the handler tested before the channel *)
ValidateHandlerFirst(cfg) ==
  IF Len(cfg.Topic) = 0 THEN ErrTopicRequired
  ELSE IF cfg.HandlerFunc = "nil" THEN ErrHandlerRequired
  ELSE IF Len(cfg.Channel) = 0 THEN ErrChannelRequired
  ELSE nil

(* listener.go 28-38: the error of the first missing field, or nil *)
Validate(cfg) ==
  IF Len(cfg.Topic) = 0 THEN ErrTopicRequired
  ELSE IF Len(cfg.Channel) = 0 THEN ErrChannelRequired
  ELSE IF cfg.HandlerFunc = "nil" THEN ErrHandlerRequired
  ELSE nil

(* listener.go 40-46: the config with its defaults filled in *)
Defaults(cfg) ==
  [cfg EXCEPT
     !.Lookup = IF Len(cfg.Lookup) = 0 THEN <<"localhost:4161">> ELSE cfg.Lookup,
     !.HandlerConcurrency =
        IF cfg.HandlerConcurrency = 0 THEN 1 ELSE cfg.HandlerConcurrency]

(* ------------------------- checkTopic (98-116) ------------------------ *)
(* line 99: the URL of the existence query, kept as its parts *)
checkTopicURL(lookupAddress, topic) ==
  [method |-> "GET", host |-> lookupAddress, path |-> "/lookup", topic |-> topic]

(* checkTopicReturn with the meanings of 200 and 404 exchanged *)
checkTopicReturnSwapped(resp) ==
  IF resp.err THEN [exist |-> FALSE, err |-> "lookup: transport error"]
  ELSE IF resp.StatusCode = 404 THEN [exist |-> TRUE, err |-> nil]
  ELSE IF resp.StatusCode = 200 THEN [exist |-> FALSE, err |-> nil]
  ELSE [exist |-> FALSE,
        err |-> "unexpected status code: " \o ToString(resp.StatusCode)]

(* checkTopicReturn taking every status but 200 for "no such topic" *)
checkTopicReturnLax(resp) ==
  IF resp.err THEN [exist |-> FALSE, err |-> "lookup: transport error"]
  ELSE IF resp.StatusCode = 200 THEN [exist |-> TRUE, err |-> nil]
  ELSE [exist |-> FALSE, err |-> nil]

(* lines 100-115: the pair (exist, err) checkTopic returns for an answer *)
checkTopicReturn(resp) ==
  IF resp.err THEN [exist |-> FALSE, err |-> "lookup: transport error"]
  ELSE IF resp.StatusCode = 200 THEN [exist |-> TRUE, err |-> nil]
  ELSE IF resp.StatusCode = 404 THEN [exist |-> FALSE, err |-> nil]
  ELSE [exist |-> FALSE,
        err |-> "unexpected status code: " \o ToString(resp.StatusCode)]

(* ------------------------ createTopic (118-159) ----------------------- *)
(* line 119 *)
nodesURL(lookupAddress) ==
  [method |-> "GET", host |-> lookupAddress, path |-> "/nodes", topic |-> ""]

(* nodesReturn without the test of the status *)
nodesReturnAnyStatus(resp) ==
  IF resp.err THEN "nodes: transport error"
  ELSE IF ~resp.body.decodes THEN "nodes: json decode error"
  ELSE IF Len(resp.body.nodes) = 0 THEN "no nsqd nodes found in lookup"
  ELSE nil

(* lines 120-142: the error createTopic returns after GET /nodes, or nil   *)
(* when it goes on to create the topic                                     *)
nodesReturn(resp) ==
  IF resp.err THEN "nodes: transport error"
  ELSE IF resp.StatusCode # 200
    THEN "failed to get nsqd address from lookup: " \o ToString(resp.StatusCode)
  ELSE IF ~resp.body.decodes THEN "nodes: json decode error"
  ELSE IF Len(resp.body.nodes) = 0 THEN "no nsqd nodes found in lookup"
  ELSE nil

(* nsqdAddress taking the last node of the list *)
nsqdAddressLast(ns) ==
  ns[Len(ns)].broadcast_address \o ":" \o ToString(ns[Len(ns)].tcp_port)

(* line 144: Sprintf("%s:%d", nodes[0].Address, nodes[0].TCPPort) *)
nsqdAddress(ns) ==
  ns[1].broadcast_address \o ":" \o ToString(ns[1].tcp_port)

(* line 145 *)
createURL(address, topic) ==
  [method |-> "POST", host |-> address, path |-> "/topic/create", topic |-> topic]

(* createReturn taking every response for a success *)
createReturnAnyStatus(resp) ==
  IF resp.err THEN "create: transport error" ELSE nil

(* lines 146-158: the error createTopic returns after the POST *)
createReturn(resp) ==
  IF resp.err THEN "create: transport error"
  ELSE IF resp.StatusCode = 200 THEN nil
  ELSE "failed to create topic: " \o ToString(resp.StatusCode)

(* ------------------------------ actions ------------------------------- *)
(* On returns e to its caller *)
Return(p, e) ==
  /\ pc' = [pc EXCEPT ![p] = "returned"]
  /\ ret' = [ret EXCEPT ![p] = e]

Goto(p, label) ==
  /\ pc' = [pc EXCEPT ![p] = label]
  /\ UNCHANGED ret

(* On provisioning whatever lc.AutoCreateTopic is *)
OnAlwaysProvision(p, cfg) ==
  /\ pc[p] = "idle"
  /\ calls' = [calls EXCEPT ![p] = @ + 1]
  /\ arg' = [arg EXCEPT ![p] = cfg]
  /\ nodes' = [nodes EXCEPT ![p] = <<>>]
  /\ http' = [http EXCEPT ![p] = <<>>]
  /\ consumer' = [consumer EXCEPT ![p] = NoConsumer]
  /\ IF Validate(cfg) # nil
       THEN /\ pc' = [pc EXCEPT ![p] = "returned"]
            /\ ret' = [ret EXCEPT ![p] = Validate(cfg)]
            /\ lc' = [lc EXCEPT ![p] = cfg]
       ELSE /\ pc' = [pc EXCEPT ![p] = "checkTopic"]
            /\ ret' = [ret EXCEPT ![p] = "none"]
            /\ lc' = [lc EXCEPT ![p] = Defaults(cfg)]
  /\ UNCHANGED <<topics, dispatchVars>>

(* listener.go 27-49: p calls On(cfg); validation, defaults and the test   *)
(* of lc.AutoCreateTopic touch nothing outside the call                    *)
On(p, cfg) ==
  /\ pc[p] = "idle"
  /\ calls' = [calls EXCEPT ![p] = @ + 1]
  /\ arg' = [arg EXCEPT ![p] = cfg]
  /\ nodes' = [nodes EXCEPT ![p] = <<>>]
  /\ http' = [http EXCEPT ![p] = <<>>]
  /\ consumer' = [consumer EXCEPT ![p] = NoConsumer]
  /\ IF Validate(cfg) # nil
       THEN /\ pc' = [pc EXCEPT ![p] = "returned"]
            /\ ret' = [ret EXCEPT ![p] = Validate(cfg)]
            /\ lc' = [lc EXCEPT ![p] = cfg]
       ELSE /\ pc' = [pc EXCEPT ![p] =
                        IF cfg.AutoCreateTopic THEN "checkTopic" ELSE "NewConsumer"]
            /\ ret' = [ret EXCEPT ![p] = "none"]
            /\ lc' = [lc EXCEPT ![p] = Defaults(cfg)]
  /\ UNCHANGED <<topics, dispatchVars>>

(* checkTopic sending its request a second time when the first failed *)
checkTopicRetry(p, resp) ==
  /\ pc[p] = "checkTopic"
  /\ http' = [http EXCEPT ![p] =
       Append(@, [req |-> checkTopicURL(lc[p].Lookup[1], lc[p].Topic), resp |-> resp])]
  /\ IF checkTopicReturn(resp).err # nil
       THEN IF http[p] = <<>> THEN Goto(p, "checkTopic")
            ELSE Return(p, checkTopicReturn(resp).err)
       ELSE IF checkTopicReturn(resp).exist
         THEN Goto(p, "NewConsumer")
         ELSE Goto(p, "createTopic")
  /\ UNCHANGED <<calls, arg, lc, nodes, consumer, topics, dispatchVars>>

(* listener.go 50-55 and 98-116: GET /lookup on the first address *)
checkTopic(p, resp) ==
  /\ pc[p] = "checkTopic"
  /\ http' = [http EXCEPT ![p] =
       Append(@, [req |-> checkTopicURL(lc[p].Lookup[1], lc[p].Topic), resp |-> resp])]
  /\ IF checkTopicReturn(resp).err # nil
       THEN Return(p, checkTopicReturn(resp).err)
       ELSE IF checkTopicReturn(resp).exist
         THEN Goto(p, "NewConsumer")
         ELSE Goto(p, "createTopic")
  /\ UNCHANGED <<calls, arg, lc, nodes, consumer, topics, dispatchVars>>

(* listener.go 56 and 118-142: GET /nodes on the first address *)
createTopicNodes(p, resp) ==
  /\ pc[p] = "createTopic"
  /\ http' = [http EXCEPT ![p] =
       Append(@, [req |-> nodesURL(lc[p].Lookup[1]), resp |-> resp])]
  /\ IF nodesReturn(resp) # nil
       THEN /\ Return(p, nodesReturn(resp))
            /\ UNCHANGED nodes
       ELSE /\ Goto(p, "createTopicPost")
            /\ nodes' = [nodes EXCEPT ![p] = resp.body.nodes]
  /\ UNCHANGED <<calls, arg, lc, consumer, topics, dispatchVars>>

(* createTopic taking a rejected create for a success when the node has    *)
(* the topic already                                                       *)
createTopicPostTolerant(p, resp) ==
  /\ pc[p] = "createTopicPost"
  /\ http' = [http EXCEPT ![p] =
       Append(@, [req |-> createURL(nsqdAddress(nodes[p]), lc[p].Topic), resp |-> resp])]
  /\ topics' = IF ~resp.err /\ resp.StatusCode = 200
                 THEN topics \cup {<<nsqdAddress(nodes[p]), lc[p].Topic>>}
                 ELSE topics
  /\ IF createReturn(resp) # nil /\ <<nsqdAddress(nodes[p]), lc[p].Topic>> \notin topics
       THEN Return(p, createReturn(resp))
       ELSE Goto(p, "NewConsumer")
  /\ UNCHANGED <<calls, arg, lc, nodes, consumer, dispatchVars>>

(* listener.go 144-158 and 56-58: POST /topic/create to the first node;    *)
(* the nsqd that answers 200 has the topic from then on                    *)
createTopicPost(p, resp) ==
  /\ pc[p] = "createTopicPost"
  /\ http' = [http EXCEPT ![p] =
       Append(@, [req |-> createURL(nsqdAddress(nodes[p]), lc[p].Topic), resp |-> resp])]
  /\ topics' = IF ~resp.err /\ resp.StatusCode = 200
                 THEN topics \cup {<<nsqdAddress(nodes[p]), lc[p].Topic>>}
                 ELSE topics
  /\ IF createReturn(resp) # nil
       THEN Return(p, createReturn(resp))
       ELSE Goto(p, "NewConsumer")
  /\ UNCHANGED <<calls, arg, lc, nodes, consumer, dispatchVars>>

(* NewConsumer going on to the connect, without the registration *)
NewConsumerSkipRegistration(p, ok) ==
  /\ pc[p] = "NewConsumer"
  /\ IF ok
       THEN /\ consumer' = [consumer EXCEPT ![p].created = TRUE, ![p].err = nil]
            /\ Goto(p, "ConnectToNSQLookupds")
       ELSE /\ consumer' = [consumer EXCEPT ![p].err = "NewConsumer: error"]
            /\ Return(p, "NewConsumer: error")
  /\ UNCHANGED <<calls, arg, lc, nodes, http, topics, dispatchVars>>

(* listener.go 62-66: nsq.NewConsumer returns a consumer or an error *)
NewConsumer(p, ok) ==
  /\ pc[p] = "NewConsumer"
  /\ IF ok
       THEN /\ consumer' = [consumer EXCEPT ![p].created = TRUE, ![p].err = nil]
            /\ Goto(p, "AddConcurrentHandlers")
       ELSE /\ consumer' = [consumer EXCEPT ![p].err = "NewConsumer: error"]
            /\ Return(p, "NewConsumer: error")
  /\ UNCHANGED <<calls, arg, lc, nodes, http, topics, dispatchVars>>

(* listener.go 68-69: the handler is registered lc.HandlerConcurrency times *)
AddConcurrentHandlers(p) ==
  /\ pc[p] = "AddConcurrentHandlers"
  /\ consumer' = [consumer EXCEPT ![p].handlers = lc[p].HandlerConcurrency]
  /\ Goto(p, "ConnectToNSQLookupds")
  /\ UNCHANGED <<calls, arg, lc, nodes, http, topics, dispatchVars>>

(* the error ConnectToNSQLookupds returns when k of the addresses succeeded *)
ConnectError(p, k) ==
  IF k = Len(lc[p].Lookup) THEN nil ELSE "ConnectToNSQLookupds: error"

(* On returning nil whatever the connect returned *)
ConnectToNSQLookupdsSwallow(p, k) ==
  /\ pc[p] = "ConnectToNSQLookupds"
  /\ k \in 0..Len(lc[p].Lookup)
  /\ consumer' = [consumer EXCEPT ![p].lookupds = {lc[p].Lookup[i] : i \in 1..k},
                                  ![p].err = ConnectError(p, k)]
  /\ Return(p, nil)
  /\ UNCHANGED <<calls, arg, lc, nodes, http, topics, dispatchVars>>

(* listener.go 70: ConnectToNSQLookupds connects to the addresses in order *)
(* and returns the error of the first that fails; k addresses succeeded    *)
ConnectToNSQLookupds(p, k) ==
  /\ pc[p] = "ConnectToNSQLookupds"
  /\ k \in 0..Len(lc[p].Lookup)
  /\ consumer' = [consumer EXCEPT ![p].lookupds = {lc[p].Lookup[i] : i \in 1..k},
                                  ![p].err = ConnectError(p, k)]
  /\ Return(p, ConnectError(p, k))
  /\ UNCHANGED <<calls, arg, lc, nodes, http, topics, dispatchVars>>

(* ------------------- handleMessage (listener.go 73-96) ---------------- *)
(* Unmarshal dropping the error *)
UnmarshalNoError(b) ==
  [err |-> nil,
   ReplyTo |-> IF b.valid_json /\ b.reply_to_type = "string" THEN b.reply_to ELSE ""]

(* line 76: json.Unmarshal(message.Body, &m): the error, and m.ReplyTo     *)
(* (the reply_to member when it is a string, else the zero value)          *)
Unmarshal(b) ==
  IF ~b.valid_json THEN [err |-> "json: syntax error", ReplyTo |-> ""]
  ELSE IF b.reply_to_type = "number"
    THEN [err |-> "json: cannot unmarshal number into reply_to", ReplyTo |-> ""]
  ELSE [err |-> nil,
        ReplyTo |-> IF b.reply_to_type = "string" THEN b.reply_to ELSE ""]

(* line 85: whether the callback goes on to publish a reply *)
ReplyExpected(ReplyTo) == ReplyTo # ""

(* line 89: NewEmitter(EmitterConfig{}): an emitter with the default       *)
(* configuration, and no error                                             *)
NewEmitter(ec) == [emitter |-> [config |-> ec], err |-> nil]

\* the zero value EmitterConfig{}
EmitterConfigZero == [Address |-> ""]

(* EmitCall publishing to a fixed topic *)
EmitCallFixedTopic(ReplyTo, res) == [topic |-> "replies", payload |-> res]

(* line 94: the publish call emitter.Emit(m.ReplyTo, res) *)
EmitCall(ReplyTo, res) == [topic |-> ReplyTo, payload |-> res]

(* the number of deliveries the transport has made so far *)
RECURSIVE DeliveriesUpTo(_)
DeliveriesUpTo(n) == IF n = 0 THEN 0 ELSE attempts[n] + DeliveriesUpTo(n - 1)
Deliveries == DeliveriesUpTo(MaxMsgs)

(* HandleMessage with every worker goroutine running, whatever was          *)
(* registered                                                              *)
HandleMessageAnyWorker(w, id) ==
  /\ consumer[1].lookupds # {}
  /\ worker[w].pc = "idle"
  /\ id \in queue
  /\ queue' = queue \ {id}
  /\ attempts' = [attempts EXCEPT ![id] = @ + 1]
  /\ worker' = [worker EXCEPT ![w] =
       IF Unmarshal(body[id]).err # nil
         THEN [IdleWorker EXCEPT !.pc = "returned", !.msg = id,
                                 !.first = (Deliveries = 0),
                                 !.ret = Unmarshal(body[id]).err]
         ELSE [IdleWorker EXCEPT !.pc = "HandlerFunc", !.msg = id,
                                 !.first = (Deliveries = 0),
                                 !.ReplyTo = Unmarshal(body[id]).ReplyTo]]
  /\ UNCHANGED <<onVars, body, finished, handled>>

(* lines 74-78: the transport hands message id to the callback on one of   *)
(* the consumer[1].handlers worker goroutines (listener.go 69), which      *)
(* parses the body; first tells whether this is the first delivery the     *)
(* transport makes                                                         *)
HandleMessage(w, id) ==
  /\ w <= consumer[1].handlers
  /\ consumer[1].lookupds # {}
  /\ worker[w].pc = "idle"
  /\ id \in queue
  /\ queue' = queue \ {id}
  /\ attempts' = [attempts EXCEPT ![id] = @ + 1]
  /\ worker' = [worker EXCEPT ![w] =
       IF Unmarshal(body[id]).err # nil
         THEN [IdleWorker EXCEPT !.pc = "returned", !.msg = id,
                                 !.first = (Deliveries = 0),
                                 !.ret = Unmarshal(body[id]).err]
         ELSE [IdleWorker EXCEPT !.pc = "HandlerFunc", !.msg = id,
                                 !.first = (Deliveries = 0),
                                 !.ReplyTo = Unmarshal(body[id]).ReplyTo]]
  /\ UNCHANGED <<onVars, body, finished, handled>>

(* HandlerFunc going on to the reply although the handler failed *)
HandlerFuncIgnoreError(w, err) ==
  /\ worker[w].pc = "HandlerFunc"
  /\ handled' = [handled EXCEPT ![worker[w].msg] = @ + 1]
  /\ worker' = [worker EXCEPT ![w] =
       IF ~ReplyExpected(worker[w].ReplyTo)
         THEN [@ EXCEPT !.pc = "returned", !.invoked = @ + 1, !.herr = err,
                        !.res = Result(worker[w].msg), !.ret = err]
         ELSE [@ EXCEPT !.pc = "Emit", !.invoked = @ + 1, !.herr = err,
                        !.res = Result(worker[w].msg)]]
  /\ UNCHANGED <<onVars, body, queue, attempts, finished>>

(* lines 80-87: the user handler runs and returns (res, err); herr keeps   *)
(* the err it returned                                                     *)
HandlerFunc(w, err) ==
  /\ worker[w].pc = "HandlerFunc"
  /\ handled' = [handled EXCEPT ![worker[w].msg] = @ + 1]
  /\ worker' = [worker EXCEPT ![w] =
       IF err # nil
         THEN [@ EXCEPT !.pc = "returned", !.invoked = @ + 1, !.herr = err,
                        !.ret = err]
         ELSE IF ~ReplyExpected(worker[w].ReplyTo)
           THEN [@ EXCEPT !.pc = "returned", !.invoked = @ + 1, !.herr = nil,
                          !.res = Result(worker[w].msg), !.ret = nil]
           ELSE [@ EXCEPT !.pc = "Emit", !.invoked = @ + 1, !.herr = nil,
                          !.res = Result(worker[w].msg)]]
  /\ UNCHANGED <<onVars, body, queue, attempts, finished>>

(* Emit with the error of the publish call dropped *)
EmitDropError(w, err) ==
  /\ worker[w].pc = "Emit"
  /\ worker' = [worker EXCEPT ![w] =
       [@ EXCEPT !.pc = "returned", !.ret = nil, !.eerr = err,
                 !.emits = Append(@, EmitCall(worker[w].ReplyTo, worker[w].res))]]
  /\ UNCHANGED <<onVars, body, queue, attempts, finished, handled>>

(* lines 89-94: a fresh emitter publishes the result; err is what Emit     *)
(* returns, kept in eerr                                                   *)
Emit(w, err) ==
  /\ worker[w].pc = "Emit"
  /\ worker' = [worker EXCEPT ![w] =
       IF NewEmitter(EmitterConfigZero).err # nil
         THEN [@ EXCEPT !.pc = "returned", !.ret = NewEmitter(EmitterConfigZero).err]
         ELSE [@ EXCEPT !.pc = "returned", !.ret = err, !.eerr = err,
                        !.emits = Append(@, EmitCall(worker[w].ReplyTo, worker[w].res))]]
  /\ UNCHANGED <<onVars, body, queue, attempts, finished, handled>>

(* the transport acts on what the callback returned: nil finishes the      *)
(* message, an error requeues it until it was tried MaxAttempts times;     *)
(* the worker waits for the next message                                   *)
Respond(w) ==
  /\ worker[w].pc = "returned"
  /\ finished' = IF worker[w].ret = nil THEN finished \cup {worker[w].msg}
                                        ELSE finished
  /\ queue' = IF worker[w].ret # nil /\ attempts[worker[w].msg] < MaxAttempts
                THEN queue \cup {worker[w].msg} ELSE queue
  /\ worker' = [worker EXCEPT ![w] = IdleWorker]
  /\ UNCHANGED <<onVars, body, attempts, handled>>

(* --------------------------- specification ---------------------------- *)
InitOn ==
  /\ pc = [p \in Procs |-> "idle"]
  /\ calls = [p \in Procs |-> 0]
  /\ arg = [p \in Procs |-> NoConfig]
  /\ lc = [p \in Procs |-> NoConfig]
  /\ nodes = [p \in Procs |-> <<>>]
  /\ http = [p \in Procs |-> <<>>]
  /\ consumer = [p \in Procs |-> NoConsumer]
  /\ ret = [p \in Procs |-> "none"]
  /\ topics = {}

(* no message is on the channel *)
InitDispatchIdle ==
  /\ body = [id \in Messages |-> NoMessageBody]
  /\ queue = {}
  /\ attempts = [id \in Messages |-> 0]
  /\ worker = [w \in Workers |-> IdleWorker]
  /\ finished = {}
  /\ handled = [id \in Messages |-> 0]

(* the steps of a call of On after its entry *)
OnBody(p) ==
  \/ \E resp \in LookupResponses : checkTopic(p, resp)
  \/ \E resp \in NodesResponses : createTopicNodes(p, resp)
  \/ \E resp \in CreateResponses : createTopicPost(p, resp)
  \/ \E ok \in BOOLEAN : NewConsumer(p, ok)
  \/ AddConcurrentHandlers(p)
  \/ \E k \in 0..MaxLookup : ConnectToNSQLookupds(p, k)

OnStep(p) ==
  \/ \E cfg \in ListenerConfigs : On(p, cfg)
  \/ \E resp \in LookupResponses : checkTopic(p, resp)
  \/ \E resp \in NodesResponses : createTopicNodes(p, resp)
  \/ \E resp \in CreateResponses : createTopicPost(p, resp)
  \/ \E ok \in BOOLEAN : NewConsumer(p, ok)
  \/ AddConcurrentHandlers(p)
  \/ \E k \in 0..MaxLookup : ConnectToNSQLookupds(p, k)

Next == \E p \in Callers : OnStep(p)

Init == InitOn /\ InitDispatchIdle

(* The state after a call On(cfg) that returned nil, for a cfg that asks   *)
(* for no provisioning, leaves the lookup list to its default and has      *)
(* started at least one worker.                                            *)
InitSubscribed ==
  \E cfg \in ListenerConfigs :
    /\ Validate(cfg) = nil /\ ~cfg.AutoCreateTopic /\ cfg.Lookup = <<>>
    /\ cfg.HandlerConcurrency >= 0
    /\ pc = [p \in Procs |-> IF p = 1 THEN "returned" ELSE "idle"]
    /\ calls = [p \in Procs |-> IF p = 1 THEN 1 ELSE 0]
    /\ arg = [p \in Procs |-> IF p = 1 THEN cfg ELSE NoConfig]
    /\ lc = [p \in Procs |-> IF p = 1 THEN Defaults(cfg) ELSE NoConfig]
    /\ nodes = [p \in Procs |-> <<>>]
    /\ http = [p \in Procs |-> <<>>]
    /\ consumer = [p \in Procs |->
         IF p = 1 THEN [created |-> TRUE,
                        handlers |-> Defaults(cfg).HandlerConcurrency,
                        lookupds |-> {"localhost:4161"},
                        err |-> nil]
                  ELSE NoConsumer]
    /\ ret = [p \in Procs |-> IF p = 1 THEN nil ELSE "none"]
    /\ topics = {}

(* the messages on the channel, none delivered yet *)
InitMessages ==
  /\ body \in [Messages -> Bodies]
  /\ queue = Messages
  /\ attempts = [id \in Messages |-> 0]
  /\ worker = [w \in Workers |-> IdleWorker]
  /\ finished = {}
  /\ handled = [id \in Messages |-> 0]

NextDispatch ==
  \E w \in Workers :
    \/ \E id \in Messages : HandleMessage(w, id)
    \/ \E err \in HandlerErrors : HandlerFunc(w, err)
    \/ \E err \in EmitErrors : Emit(w, err)
    \/ Respond(w)

InitDispatch == InitSubscribed /\ InitMessages

SpecDispatch == InitDispatch /\ [][NextDispatch]_vars

(* On called a second time, with the config of the first call, once the    *)
(* first call has returned                                                 *)
OnAgain ==
  /\ pc[1] = "returned"
  /\ On(2, arg[1])

(* the configs with at most one lookup address and the concurrency unset:  *)
(* validation reads neither field                                          *)
ShortConfigs ==
  {cfg \in ListenerConfigs : Len(cfg.Lookup) <= 1 /\ cfg.HandlerConcurrency = 0}

NextTwice ==
  \/ \E cfg \in ShortConfigs : On(1, cfg)
  \/ OnBody(1)
  \/ OnAgain
  \/ OnBody(2)

SpecTwice == Init /\ [][NextTwice]_vars

(* two goroutines call On for the same topic and channel with              *)
(* AutoCreateTopic, and their steps interleave                             *)
RaceConfigs ==
  {cfg \in ShortConfigs :
     /\ cfg.AutoCreateTopic
     /\ cfg.Topic = "orders" /\ cfg.Channel = "billing" /\ cfg.HandlerFunc = "h"}

NextRace ==
  \E p \in Procs :
    \/ \E cfg \in RaceConfigs : On(p, cfg)
    \/ OnBody(p)

SpecRace == Init /\ [][NextRace]_vars

Spec == Init /\ [][Next]_vars

(* every call the program makes returns: On is called, and each request    *)
(* and each call of the nsq library comes back, so the next step is taken  *)
SpecLive == Init /\ [][Next]_vars /\ \A p \in Callers : WF_vars(OnStep(p))

(* ============================== properties ============================ *)
(* what a call of On has done outside itself *)
Started(p) == pc[p] # "idle"
Returned(p) == pc[p] = "returned"
NoEffect(p) ==
  /\ http[p] = <<>>
  /\ consumer[p] = NoConsumer
  /\ topics = {}
RequestsTo(p, path) == {i \in 1..Len(http[p]) : http[p][i].req.path = path}
IsStatus(x, code) == ~x.resp.err /\ x.resp.StatusCode = code

(* C1: a call of On whose config has an empty topic returns                *)
(* ErrTopicRequired, whatever the other fields are, and sends no HTTP      *)
(* request, constructs no consumer, registers no handler and connects to   *)
(* nothing.                                                                *)
C1_TopicRequired ==
  \A p \in Procs :
    (Started(p) /\ arg[p].Topic = "") =>
      /\ Returned(p)
      /\ ret[p] = ErrTopicRequired
      /\ NoEffect(p)

C1_Witness ==
  \E p \in Procs :
    /\ Returned(p) /\ ret[p] = ErrTopicRequired
    /\ arg[p].Topic = "" /\ arg[p].Channel # "" /\ arg[p].HandlerFunc = "h"
    /\ arg[p].AutoCreateTopic /\ Len(arg[p].Lookup) = MaxLookup
    /\ arg[p].HandlerConcurrency = MaxConcurrency

(* C2: validation is in the order topic, channel, handler and the first    *)
(* violation wins: topic present and channel empty gives                   *)
(* ErrChannelRequired (also with the handler absent), topic and channel    *)
(* present and handler absent gives ErrHandlerRequired, an empty topic     *)
(* gives ErrTopicRequired whatever else is missing; no such call has any   *)
(* effect outside itself.                                                  *)
C2_ValidationOrder ==
  \A p \in Procs :
    Started(p) =>
      /\ (arg[p].Topic # "" /\ arg[p].Channel = "") =>
           (Returned(p) /\ ret[p] = ErrChannelRequired /\ NoEffect(p))
      /\ (arg[p].Topic # "" /\ arg[p].Channel # "" /\ arg[p].HandlerFunc = "nil") =>
           (Returned(p) /\ ret[p] = ErrHandlerRequired /\ NoEffect(p))
      /\ (arg[p].Topic = "" /\ (arg[p].Channel = "" \/ arg[p].HandlerFunc = "nil")) =>
           (Returned(p) /\ ret[p] = ErrTopicRequired /\ NoEffect(p))

C2_Witness ==
  \E p \in Procs :
    /\ Returned(p) /\ ret[p] = ErrChannelRequired
    /\ arg[p].Topic # "" /\ arg[p].Channel = "" /\ arg[p].HandlerFunc = "nil"
    /\ arg[p].AutoCreateTopic

(* C3: when On has returned, either the subscription is fully active (the  *)
(* handler is registered and the consumer is connected to all the          *)
(* discovery addresses) or no partial state is left: no topic created by   *)
(* this call, no consumer with registered handlers, no connection to any   *)
(* discovery address.                                                      *)
Range(seq) == {seq[i] : i \in 1..Len(seq)}
FullyActive(p) ==
  /\ consumer[p].created
  /\ consumer[p].handlers >= 1
  /\ consumer[p].lookupds = Range(lc[p].Lookup)
TopicCreatedBy(p) == \E i \in RequestsTo(p, "/topic/create") : IsStatus(http[p][i], 200)
NoPartialState(p) ==
  /\ ~TopicCreatedBy(p)
  /\ consumer[p].handlers = 0
  /\ consumer[p].lookupds = {}

C3_AllOrNothing ==
  \A p \in Procs : Returned(p) => (FullyActive(p) \/ NoPartialState(p))

(* C4: when the provisioning of a call fails at any step, On returns the   *)
(* error of that step, sends no request after the failed one, constructs   *)
(* no consumer, registers no handler and connects to nothing.              *)
LookupFailed(x) ==
  x.req.path = "/lookup" /\ (x.resp.err \/ x.resp.StatusCode \notin {200, 404})
NodesFailed(x) ==
  /\ x.req.path = "/nodes"
  /\ \/ x.resp.err
     \/ x.resp.StatusCode # 200
     \/ ~x.resp.body.decodes
     \/ x.resp.body.nodes = <<>>
CreateFailed(x) ==
  x.req.path = "/topic/create" /\ (x.resp.err \/ x.resp.StatusCode # 200)
ExchangeFailed(x) == LookupFailed(x) \/ NodesFailed(x) \/ CreateFailed(x)
(* the error On returns when exchange x failed *)
ErrorOf(x) ==
  IF x.req.path = "/lookup"
    THEN IF x.resp.err THEN "lookup: transport error"
         ELSE "unexpected status code: 500"
  ELSE IF x.req.path = "/nodes"
    THEN IF x.resp.err THEN "nodes: transport error"
         ELSE IF x.resp.StatusCode # 200
           THEN "failed to get nsqd address from lookup: 500"
         ELSE IF ~x.resp.body.decodes THEN "nodes: json decode error"
         ELSE "no nsqd nodes found in lookup"
  ELSE IF x.resp.err THEN "create: transport error"
       ELSE "failed to create topic: 500"

C4_ProvisioningFailureAborts ==
  \A p \in Procs :
    \A i \in 1..Len(http[p]) :
      ExchangeFailed(http[p][i]) =>
        /\ arg[p].AutoCreateTopic
        /\ i = Len(http[p])
        /\ Returned(p)
        /\ ret[p] = ErrorOf(http[p][i])
        /\ consumer[p] = NoConsumer

C4_Witness ==
  \E p \in Procs :
    /\ Returned(p) /\ consumer[p] = NoConsumer
    /\ Len(http[p]) = 3
    /\ CreateFailed(http[p][3])
    /\ IsStatus(http[p][3], 500)
    /\ ret[p] = "failed to create topic: 500"

(* the provisioning of the call succeeded: On has gone on to the consumer *)
PastProvisioning(p) ==
  \/ pc[p] \in {"NewConsumer", "AddConcurrentHandlers", "ConnectToNSQLookupds"}
  \/ /\ Returned(p)
     /\ ret[p] \in {nil, "NewConsumer: error", "ConnectToNSQLookupds: error"}

(* C5: when /lookup answers 200 the provisioning is over with success: the *)
(* call sends no /nodes request and no create-topic request, creates no    *)
(* topic, and On goes on to the consumer (construction, registration,      *)
(* connect).                                                               *)
C5_ExistingTopicNotCreated ==
  \A p \in Procs :
    (Len(http[p]) >= 1 /\ http[p][1].req.path = "/lookup" /\ IsStatus(http[p][1], 200)) =>
      /\ Len(http[p]) = 1
      /\ RequestsTo(p, "/nodes") = {}
      /\ RequestsTo(p, "/topic/create") = {}
      /\ topics = {}
      /\ PastProvisioning(p)

C5_Witness ==
  \E p \in Procs :
    /\ Len(http[p]) = 1 /\ IsStatus(http[p][1], 200)
    /\ Returned(p) /\ ret[p] = nil
    /\ consumer[p].handlers = MaxConcurrency
    /\ consumer[p].lookupds = LookupAddrs

(* C6: when /lookup answers with a status other than 200 and 404, the call *)
(* returns the "unexpected status code" error, and sends neither a /nodes  *)
(* request nor a create-topic request.                                     *)
C6_UnexpectedLookupStatus ==
  \A p \in Procs :
    (/\ Len(http[p]) >= 1
     /\ http[p][1].req.path = "/lookup"
     /\ ~http[p][1].resp.err
     /\ http[p][1].resp.StatusCode \notin {200, 404}) =>
      /\ Returned(p)
      /\ ret[p] = "unexpected status code: 500"
      /\ Len(http[p]) = 1
      /\ RequestsTo(p, "/nodes") = {}
      /\ RequestsTo(p, "/topic/create") = {}
      /\ topics = {}

C6_Witness ==
  \E p \in Procs :
    /\ Returned(p) /\ Len(http[p]) = 1 /\ IsStatus(http[p][1], 500)
    /\ http[p][1].req = [method |-> "GET", host |-> "disc2:4161", path |-> "/lookup",
                         topic |-> "orders"]
    /\ arg[p].Lookup = <<"disc2:4161", "disc:4161">>

(* C7: when /lookup answers 404 and /nodes answers 200 with a non-empty    *)
(* node list, the call sends exactly one create-topic request, a POST of   *)
(* /topic/create for its topic to broadcast_address:tcp_port of the first  *)
(* node of that list, and the provisioning succeeds if and only if that    *)
(* request is answered 200.                                                *)
NodeListAnswered(p) ==
  /\ Len(http[p]) >= 2
  /\ http[p][1].req.path = "/lookup" /\ IsStatus(http[p][1], 404)
  /\ http[p][2].req.path = "/nodes" /\ IsStatus(http[p][2], 200)
  /\ http[p][2].resp.body.decodes
  /\ http[p][2].resp.body.nodes # <<>>
FirstNodeOf(x) == x.resp.body.nodes[1]

C7_CreateOnFirstNode ==
  \A p \in Procs :
    NodeListAnswered(p) =>
      IF pc[p] = "createTopicPost"
        THEN Len(http[p]) = 2
        ELSE /\ Len(http[p]) = 3
             /\ RequestsTo(p, "/topic/create") = {3}
             /\ http[p][3].req.method = "POST"
             /\ http[p][3].req.topic = arg[p].Topic
             /\ http[p][3].req.host =
                  FirstNodeOf(http[p][2]).broadcast_address \o ":"
                    \o ToString(FirstNodeOf(http[p][2]).tcp_port)
             /\ PastProvisioning(p) <=> IsStatus(http[p][3], 200)
             /\ IsStatus(http[p][3], 200) <=> topics = {<<http[p][3].req.host, arg[p].Topic>>}

C7_Witness ==
  \E p \in Procs :
    /\ NodeListAnswered(p)
    /\ Len(http[p][2].resp.body.nodes) = MaxNodes
    /\ http[p][2].resp.body.nodes[1].broadcast_address = "n2"
    /\ http[p][2].resp.body.nodes[MaxNodes].broadcast_address = "n1"
    /\ Len(http[p]) = 3
    /\ http[p][3].req.host = "n2:4151"
    /\ IsStatus(http[p][3], 200)
    /\ Returned(p) /\ ret[p] = nil

(* C8: when the creation is needed and /nodes answers with a status other  *)
(* than 200, or with an empty node list, the call returns an error (the    *)
(* "no nodes found" error for the empty list of a 200 answer) and sends no *)
(* create-topic request to any broker.                                     *)
C8_NoNodesNoCreate ==
  \A p \in Procs :
    (/\ Len(http[p]) >= 2
     /\ http[p][2].req.path = "/nodes"
     /\ ~http[p][2].resp.err
     /\ \/ http[p][2].resp.StatusCode # 200
        \/ http[p][2].resp.body.decodes /\ http[p][2].resp.body.nodes = <<>>) =>
      /\ Returned(p)
      /\ ret[p] \notin {nil, "none"}
      /\ (IsStatus(http[p][2], 200) => ret[p] = "no nsqd nodes found in lookup")
      /\ (~IsStatus(http[p][2], 200) =>
            ret[p] = "failed to get nsqd address from lookup: 500")
      /\ Len(http[p]) = 2
      /\ RequestsTo(p, "/topic/create") = {}
      /\ topics = {}
      /\ consumer[p] = NoConsumer

C8_Witness ==
  \E p \in Procs :
    /\ Returned(p) /\ Len(http[p]) = 2
    /\ http[p][2].req.path = "/nodes" /\ IsStatus(http[p][2], 200)
    /\ http[p][2].resp.body.decodes /\ http[p][2].resp.body.nodes = <<>>
    /\ ret[p] = "no nsqd nodes found in lookup"

(* the body of message id is a JSON text whose reply_to, if any, is a      *)
(* string                                                                  *)
Parses(id) == body[id].valid_json /\ body[id].reply_to_type # "number"
(* the replyTo of the envelope built from the body of message id *)
ReplyToOf(id) == IF body[id].reply_to_type = "string" THEN body[id].reply_to ELSE ""
Delivered(w) == worker[w].msg # 0
CallbackReturned(w) == worker[w].pc = "returned"

(* C9: when the callback has returned for a message whose body parses and  *)
(* whose handler returned no error: with replyTo a non-empty name it made  *)
(* exactly one publish call, to that name, with the result of the handler  *)
(* as payload; with replyTo empty it made no publish call and returned     *)
(* success.                                                                *)
C9_ReplyRoundTrip ==
  \A w \in Workers :
    (CallbackReturned(w) /\ Parses(worker[w].msg) /\ worker[w].herr = nil) =>
      IF ReplyToOf(worker[w].msg) # ""
        THEN worker[w].emits =
               <<[topic |-> ReplyToOf(worker[w].msg), payload |-> Result(worker[w].msg)]>>
        ELSE worker[w].emits = <<>> /\ worker[w].ret = nil

C9_Witness ==
  \E w, v \in Workers :
    /\ w # v
    /\ CallbackReturned(w) /\ worker[w].herr = nil
    /\ worker[w].emits = <<[topic |-> "X", payload |-> Result(worker[w].msg)]>>
    /\ worker[w].ret = nil
    /\ CallbackReturned(v) /\ worker[v].herr = nil /\ Parses(worker[v].msg)
    /\ ReplyToOf(worker[v].msg) = "" /\ worker[v].emits = <<>> /\ worker[v].ret = nil

(* C10: when the body of a delivered message does not parse, the callback  *)
(* returns the parse error: it does not invoke the handler, publishes no   *)
(* reply and does not return success, in this and in every other delivery  *)
(* of the message, which the transport is never told is done.              *)
C10_ParseFailureReturned ==
  /\ \A w \in Workers :
       (Delivered(w) /\ ~Parses(worker[w].msg)) =>
         /\ CallbackReturned(w)
         /\ worker[w].ret \in {"json: syntax error",
                               "json: cannot unmarshal number into reply_to"}
         /\ worker[w].invoked = 0
         /\ worker[w].emits = <<>>
  /\ \A id \in Messages :
       ~Parses(id) => (handled[id] = 0 /\ id \notin finished)

C10_Witness ==
  \E w \in Workers :
    /\ CallbackReturned(w) /\ ~body[worker[w].msg].valid_json
    /\ worker[w].ret = "json: syntax error"
    /\ attempts[worker[w].msg] = MaxAttempts

(* C11: in one delivery the handler is invoked at most once; when it       *)
(* returns an error the callback returns that same error, publishes no     *)
(* reply (also with a non-empty replyTo) and does not invoke the handler   *)
(* again: over all deliveries of a message the handler ran at most once    *)
(* per delivery.                                                           *)
HandlerFailed(w) == worker[w].herr \notin {nil, "none"}

C11_HandlerErrorReturned ==
  /\ \A w \in Workers :
       /\ worker[w].invoked <= 1
       /\ HandlerFailed(w) =>
            /\ CallbackReturned(w)
            /\ worker[w].invoked = 1
            /\ worker[w].ret = worker[w].herr
            /\ worker[w].emits = <<>>
  /\ \A id \in Messages : handled[id] <= attempts[id]

C11_Witness ==
  \E w \in Workers :
    /\ CallbackReturned(w) /\ HandlerFailed(w)
    /\ ReplyToOf(worker[w].msg) = "X"
    /\ worker[w].ret = "handler: error"
    /\ attempts[worker[w].msg] = MaxAttempts
    /\ handled[worker[w].msg] = MaxAttempts

(* C12: the callback returns success exactly when the body parsed, the     *)
(* handler returned no error, and replyTo is empty or the publish call     *)
(* returned no error. So a delivery whose handler succeeded and whose      *)
(* publish failed is reported as failed: the transport does not finish the *)
(* message for it and, while it still redelivers, queues the message       *)
(* again, which invokes the handler once more.                             *)
PublishFailed(w) == worker[w].eerr \notin {nil, "none"}
CallbackSucceeds(w) ==
  /\ Parses(worker[w].msg)
  /\ worker[w].herr = nil
  /\ ReplyToOf(worker[w].msg) = "" \/ worker[w].eerr = nil

C12_SuccessIff ==
  \A w \in Workers :
    CallbackReturned(w) =>
      /\ worker[w].ret = nil <=> CallbackSucceeds(w)
      /\ (worker[w].herr = nil /\ PublishFailed(w)) => worker[w].ret = worker[w].eerr

C12_FailedReplyRedelivered ==
  [][\A w \in Workers :
       (/\ CallbackReturned(w) /\ worker[w].herr = nil /\ PublishFailed(w)
        /\ worker'[w] # worker[w]) =>
         /\ finished' = finished
         /\ attempts[worker[w].msg] < MaxAttempts => worker[w].msg \in queue']_vars

C12_ReplyFailureFailsMessage == []C12_SuccessIff /\ C12_FailedReplyRedelivered

(* the handler has run twice for a message: its first delivery was queued  *)
(* again, and the second one fails at the publish call after the handler   *)
(* succeeded                                                               *)
C12_Witness ==
  \E w \in Workers :
    /\ CallbackReturned(w) /\ worker[w].herr = nil /\ PublishFailed(w)
    /\ worker[w].ret = "emit: error"
    /\ handled[worker[w].msg] = MaxAttempts
    /\ worker[w].msg \notin finished

(* C13: for a subscription started with concurrency n, at most n callback  *)
(* invocations are in flight; a delivered message is on exactly one worker *)
(* (and neither queued nor finished) from the parse until the callback has *)
(* returned, and the worker keeps it all that time; with n = 1 no two      *)
(* invocations overlap. With n > 1 a message delivered later can be        *)
(* finished while the one delivered first is still being handled.          *)
InFlight == {w \in Workers : worker[w].pc # "idle"}
RequestedConcurrency ==
  IF arg[1].HandlerConcurrency = 0 THEN 1 ELSE arg[1].HandlerConcurrency
WorkersOf(id) == {w \in Workers : worker[w].msg = id}

C13_Slots ==
  /\ Cardinality(InFlight) <= RequestedConcurrency
  /\ RequestedConcurrency = 1 => Cardinality(InFlight) <= 1
  /\ \A w \in Workers : worker[w].pc # "idle" <=> worker[w].msg \in Messages
  /\ \A id \in Messages :
       /\ Cardinality(WorkersOf(id)) <= 1
       /\ WorkersOf(id) # {} => (id \notin queue /\ id \notin finished)

C13_SlotHeld ==
  [][\A w \in Workers :
       worker[w].pc \in {"HandlerFunc", "Emit"} =>
         /\ worker'[w].msg = worker[w].msg
         /\ worker'[w].pc # "idle"]_vars

C13_BoundedConcurrency == []C13_Slots /\ C13_SlotHeld

C13_Witness ==
  \E w \in Workers :
    /\ RequestedConcurrency > 1
    /\ worker[w].first /\ worker[w].pc = "HandlerFunc"
    /\ \E id \in finished : id # worker[w].msg /\ ReplyToOf(id) = "X"

(* C14: the concurrency On registers is at least 1 for every concurrency   *)
(* of the config it was called with, 1 standing for 0; and with an empty   *)
(* list of discovery addresses the provisioning and the connect use the    *)
(* single default address.                                                 *)
HandlersRegistered(p) ==
  pc[p] = "ConnectToNSQLookupds" \/ (Returned(p) /\ consumer[p].created)
AddressesUsed(p) ==
  IF arg[p].Lookup = <<>> THEN <<"localhost:4161">> ELSE arg[p].Lookup

C14_DefaultsApplied ==
  \A p \in Procs :
    /\ HandlersRegistered(p) =>
         /\ consumer[p].handlers >= 1
         /\ consumer[p].handlers =
              IF arg[p].HandlerConcurrency = 0 THEN 1 ELSE arg[p].HandlerConcurrency
    /\ \A i \in RequestsTo(p, "/lookup") \cup RequestsTo(p, "/nodes") :
         http[p][i].req.host = AddressesUsed(p)[1]
    /\ consumer[p].lookupds \subseteq Range(AddressesUsed(p))
    /\ (Returned(p) /\ ret[p] = nil) => consumer[p].lookupds = Range(AddressesUsed(p))

C14_Witness ==
  \E p \in Procs :
    /\ arg[p].HandlerConcurrency = 0 /\ arg[p].Lookup = <<>>
    /\ arg[p].AutoCreateTopic
    /\ Len(http[p]) = 3
    /\ http[p][1].req.host = "localhost:4161" /\ http[p][2].req.host = "localhost:4161"
    /\ Returned(p) /\ ret[p] = nil
    /\ consumer[p].handlers = 1
    /\ consumer[p].lookupds = {"localhost:4161"}

(* C14, for the configs whose concurrency is not negative *)
C14_DefaultsAppliedFromZero ==
  \A p \in Procs :
    (Started(p) /\ arg[p].HandlerConcurrency >= 0) =>
      /\ HandlersRegistered(p) =>
           /\ consumer[p].handlers >= 1
           /\ consumer[p].handlers =
                IF arg[p].HandlerConcurrency = 0 THEN 1 ELSE arg[p].HandlerConcurrency
      /\ \A i \in RequestsTo(p, "/lookup") \cup RequestsTo(p, "/nodes") :
           http[p][i].req.host = AddressesUsed(p)[1]

(* ------------------------------ C15 ----------------------------------- *)
Invalid(cfg) == cfg.Topic = "" \/ cfg.Channel = "" \/ cfg.HandlerFunc = "nil"

(* C15: On called twice with an identical invalid config (no topic, no     *)
(* channel or no handler) returns the identical error both times, one of   *)
(* the three validation errors, and neither call sends a request, builds a *)
(* consumer or creates a topic.                                            *)
C15_ValidationIdempotent ==
  (Started(1) /\ Started(2) /\ arg[2] = arg[1] /\ Invalid(arg[1])) =>
    /\ Returned(1) /\ Returned(2)
    /\ ret[2] = ret[1]
    /\ ret[1] \in {ErrTopicRequired, ErrChannelRequired, ErrHandlerRequired}
    /\ \A p \in Procs : http[p] = <<>> /\ consumer[p] = NoConsumer /\ nodes[p] = <<>>
    /\ topics = {}

C15_Witness ==
  /\ Returned(1) /\ Returned(2)
  /\ arg[2] = arg[1] /\ arg[1].Topic = "orders" /\ arg[1].Channel = ""
  /\ arg[1].AutoCreateTopic
  /\ ret[1] = ErrChannelRequired /\ ret[2] = ErrChannelRequired

(* ------------------------------ C16 ----------------------------------- *)
(* the provisioning of the call is over and has not failed *)
ProvisioningSucceeded(p) ==
  IF arg[p].AutoCreateTopic
    THEN /\ http[p] # <<>>
         /\ \/ /\ Len(http[p]) = 1
               /\ http[p][1].req.path = "/lookup" /\ IsStatus(http[p][1], 200)
            \/ /\ Len(http[p]) = 3
               /\ http[p][3].req.path = "/topic/create" /\ IsStatus(http[p][3], 200)
    ELSE http[p] = <<>>

ConcurrencyAsked(p) ==
  IF arg[p].HandlerConcurrency = 0 THEN 1 ELSE arg[p].HandlerConcurrency

C16_Order ==
  \A p \in Procs :
    Started(p) =>
      \* provisioning: after validation, only when asked for, and its
      \* discovery requests only to the first address
      /\ http[p] # <<>> => (~Invalid(arg[p]) /\ arg[p].AutoCreateTopic)
      /\ \A i \in RequestsTo(p, "/lookup") \cup RequestsTo(p, "/nodes") :
           http[p][i].req.host = AddressesUsed(p)[1]
      \* the consumer, its registration and its connect: after validation
      \* and provisioning have succeeded
      /\ (consumer[p] # NoConsumer \/ pc[p] \in {"AddConcurrentHandlers", "ConnectToNSQLookupds"}) =>
           (~Invalid(arg[p]) /\ ProvisioningSucceeded(p))
      \* registration at the requested concurrency
      /\ consumer[p].handlers # 0 =>
           consumer[p].handlers = ConcurrencyAsked(p)
      \* connect after registration, to the given addresses
      /\ pc[p] = "ConnectToNSQLookupds" => consumer[p].handlers # 0
      /\ consumer[p].lookupds # {} =>
           (consumer[p].handlers # 0 /\ consumer[p].lookupds \subseteq Range(AddressesUsed(p)))
      /\ (Returned(p) /\ ret[p] = nil) =>
           consumer[p].lookupds = Range(AddressesUsed(p))

(* a step sends a request only while there is no consumer, registers the   *)
(* handlers only while connected to nothing, and connects only with the    *)
(* handlers registered                                                     *)
C16_StepOrder ==
  [][\A p \in Procs :
       /\ http'[p] # http[p] =>
            (consumer[p] = NoConsumer /\ consumer'[p] = NoConsumer)
       /\ consumer'[p].handlers # consumer[p].handlers =>
            (http'[p] = http[p] /\ consumer[p].lookupds = {} /\ consumer'[p].lookupds = {})
       /\ consumer'[p].lookupds # consumer[p].lookupds =>
            (consumer[p].handlers # 0 /\ consumer'[p].handlers = consumer[p].handlers)]_vars

(* C16: in every execution of On the steps are in the order validation,    *)
(* provisioning (only with AutoCreateTopic, its discovery requests only to *)
(* the first address), registration of the handler at the requested        *)
(* concurrency, connect to the given addresses; no registration and no     *)
(* connect before validation and provisioning have succeeded, no connect   *)
(* before the registration.                                                *)
C16_StepsInOrder == []C16_Order /\ C16_StepOrder

C16_Witness ==
  \E p \in Procs :
    /\ Returned(p) /\ ret[p] = nil
    /\ arg[p].AutoCreateTopic /\ Len(http[p]) = 3
    /\ arg[p].Lookup = <<"disc2:4161", "disc:4161">>
    /\ http[p][1].req.host = "disc2:4161" /\ http[p][2].req.host = "disc2:4161"
    /\ consumer[p].handlers = MaxConcurrency
    /\ consumer[p].lookupds = {"disc:4161", "disc2:4161"}

(* ------------------------------ C17 ----------------------------------- *)
ConstructionFailed(p) == ~consumer[p].created /\ consumer[p].err # "none"
ConstructionSucceeded(p) == consumer[p].created
ConnectFailed(p) == Returned(p) /\ consumer[p].created /\ consumer[p].err # nil
ConnectSucceeded(p) == Returned(p) /\ consumer[p].created /\ consumer[p].err = nil
StepFailed(p) ==
  \/ Invalid(arg[p])
  \/ \E i \in 1..Len(http[p]) : ExchangeFailed(http[p][i])
  \/ ConstructionFailed(p)
  \/ ConnectFailed(p)

C17_Results ==
  \A p \in Procs :
    /\ Returned(p) =>
         /\ ret[p] = nil <=>
              /\ ~Invalid(arg[p])
              /\ ProvisioningSucceeded(p)
              /\ ConstructionSucceeded(p)
              /\ ConnectSucceeded(p)
         /\ StepFailed(p) => ret[p] # nil
         /\ (ConstructionFailed(p) \/ ConnectFailed(p)) => ret[p] = consumer[p].err
    \* a failed step ends the call
    /\ (Started(p) /\ StepFailed(p)) => Returned(p)

(* no step is taken again: a call that has returned does nothing more, and *)
(* each step acts once                                                     *)
C17_NoRetry ==
  [][\A p \in Procs :
       /\ Returned(p) =>
            (pc'[p] = pc[p] /\ ret'[p] = ret[p] /\ http'[p] = http[p]
             /\ consumer'[p] = consumer[p])
       /\ http'[p] # http[p] =>
            (Len(http'[p]) = Len(http[p]) + 1
             /\ RequestsTo(p, http'[p][Len(http'[p])].req.path) = {})
       /\ consumer'[p] # consumer[p] => pc'[p] # pc[p]]_vars

(* C17: On returns nil exactly when validation passed, the provisioning    *)
(* (with AutoCreateTopic) succeeded, nsq.NewConsumer succeeded and the     *)
(* connect succeeded; a failure of any of these steps is returned as a     *)
(* non-nil error, the error of nsq.NewConsumer or of the connect as it is, *)
(* and a failed step is not taken again.                                   *)
C17_SuccessIffAllSteps == []C17_Results /\ C17_NoRetry

C17_Witness ==
  \E p \in Procs :
    /\ Returned(p) /\ ret[p] = "ConnectToNSQLookupds: error"
    /\ arg[p].AutoCreateTopic /\ Len(http[p]) = 3
    /\ arg[p].Lookup = <<"disc:4161", "disc:4161">>
    /\ consumer[p].created /\ consumer[p].handlers = 1
    /\ consumer[p].lookupds = {"disc:4161"}

(* ------------------------------ C18 ----------------------------------- *)
ProvisionerPaths == <<"/lookup", "/nodes", "/topic/create">>
InProvisioner(p) == pc[p] \in {"checkTopic", "createTopic", "createTopicPost"}

C18_AtMostOnceInOrder ==
  \A p \in Procs :
    /\ Len(http[p]) <= 3
    /\ \A i \in 1..Len(http[p]) : http[p][i].req.path = ProvisionerPaths[i]
    /\ \A i \in 1..Len(http[p]) :
         ExchangeFailed(http[p][i]) => (i = Len(http[p]) /\ ~InProvisioner(p))

(* Returned(p) is a state outside the provisioner *)
C18_Terminates ==
  \A p \in Callers : InProvisioner(p) ~> Returned(p)

(* C18: one run of the provisioner sends at most one /lookup, one /nodes   *)
(* and one create request, in that order, sends nothing after the first    *)
(* failed one, and when every request returns the provisioner ends, and On *)
(* returns.                                                                *)
C18_ProvisionerBounded == []C18_AtMostOnceInOrder /\ C18_Terminates

C18_Witness ==
  \E p \in Procs :
    /\ Returned(p)
    /\ Len(http[p]) = 3
    /\ http[p][1].req.path = "/lookup" /\ IsStatus(http[p][1], 404)
    /\ http[p][2].req.path = "/nodes" /\ Len(nodes[p]) = MaxNodes
    /\ http[p][3].req.path = "/topic/create" /\ http[p][3].resp.err
    /\ ret[p] = "create: transport error"

(* ------------------------------ C19 ----------------------------------- *)
CreateRequests(p) == RequestsTo(p, "/topic/create")
CreationRejected(p) ==
  \E i \in CreateRequests(p) : ~http[p][i].resp.err /\ http[p][i].resp.StatusCode # 200
(* the topic of p's call is on the node p posted to *)
TopicExists(p) ==
  \E i \in CreateRequests(p) : <<http[p][i].req.host, http[p][i].req.topic>> \in topics

C19_Loser ==
  \A p \in Procs :
    /\ Cardinality(CreateRequests(p)) <= 1
    /\ CreationRejected(p) =>
         /\ Returned(p)
         /\ ret[p] = "failed to create topic: 500"
         /\ consumer[p] = NoConsumer

(* a create rejected while the node has the topic ends the call with the   *)
(* creation error, and the topic stays                                     *)
C19_RejectedStep ==
  [][\A p \in Procs :
       (~CreationRejected(p) /\ CreationRejected(p)' /\ TopicExists(p)') =>
          /\ pc'[p] = "returned" /\ ret'[p] = "failed to create topic: 500"
          /\ consumer'[p] = NoConsumer
          /\ topics' = topics]_vars

(* C19: two concurrent calls of On with AutoCreateTopic for the same       *)
(* absent topic can both see 404 and both post a create, each at most one; *)
(* the call whose create the broker rejects with a status other than 200   *)
(* returns the creation error and builds no consumer, although the topic   *)
(* is there.                                                               *)
C19_RaceOnCreate == []C19_Loser /\ C19_RejectedStep

C19_Witness ==
  \E p, q \in Procs :
    /\ p # q
    /\ Len(http[p]) = 3 /\ Len(http[q]) = 3
    /\ IsStatus(http[p][1], 404) /\ IsStatus(http[q][1], 404)
    /\ http[p][3].req = http[q][3].req
    /\ http[p][3].req.path = "/topic/create"
    /\ IsStatus(http[p][3], 200) /\ IsStatus(http[q][3], 500)
    /\ <<http[q][3].req.host, http[q][3].req.topic>> \in topics
    /\ Returned(q) /\ ret[q] = "failed to create topic: 500"
    /\ consumer[q] = NoConsumer
    /\ Returned(p) /\ ret[p] = nil

(* ------------------------------ C20 ----------------------------------- *)
C20_NoRequests ==
  \A p \in Procs :
    (Started(p) /\ ~arg[p].AutoCreateTopic) =>
      /\ http[p] = <<>>
      /\ nodes[p] = <<>>
      /\ topics = {}
      /\ ~InProvisioner(p)

(* the call of On goes from validation and defaults to the construction of *)
(* the consumer, and no later step of the call touches the topics          *)
C20_Direct ==
  [][\A p \in Procs :
       /\ (pc[p] = "idle" /\ pc'[p] # "idle"
           /\ ~arg'[p].AutoCreateTopic /\ ~Invalid(arg'[p])) =>
            (pc'[p] = "NewConsumer" /\ lc'[p].Lookup = AddressesUsed(p)'
             /\ consumer'[p] = NoConsumer)
       /\ (pc'[p] # pc[p] /\ ~arg'[p].AutoCreateTopic) => topics' = topics]_vars

(* C20: with AutoCreateTopic false On sends no /lookup, /nodes or create   *)
(* request, leaves the topics of the brokers as they were, and goes from   *)
(* validation and defaults straight to the consumer, its registration and  *)
(* its connect.                                                            *)
C20_NoProvisioningWithoutFlag == []C20_NoRequests /\ C20_Direct

C20_Witness ==
  \E p \in Procs :
    /\ ~arg[p].AutoCreateTopic /\ ~Invalid(arg[p])
    /\ Returned(p) /\ ret[p] = nil
    /\ http[p] = <<>> /\ topics = {}
    /\ consumer[p].created /\ consumer[p].handlers = MaxConcurrency
    /\ consumer[p].lookupds = {"disc:4161", "disc2:4161"}

====
